---- MODULE Spec2Model ----
(***************************************************************************)
(* A model of ctile (src/main.go): an HTTP handler that serves ranges of   *)
(* Certificate Transparency log entries from fixed-size aligned tiles,     *)
(* cached in S3 and fetched from the backing CT log on a cache miss.       *)
(*                                                                         *)
(* Each request is a process that runs ServeHTTP; it can be suspended at   *)
(* its three I/O calls (S3 GetObject, the backend GET, S3 PutObject), so   *)
(* the handler is cut into one action per I/O call, each including all the *)
(* local computation that follows the call up to the next one.             *)
(***************************************************************************)
EXTENDS Integers, Sequences, FiniteSets, TLC

\* ------------------------------------------------------------------ bounds
\* Number of request slots that can be in flight at once.
NumReq == 2
\* The configured tile size (the -tile-size flag).
TileSize == 2
\* The largest size the backing log grows to.
MaxLog == 4
\* Width of the model's "int64": the arithmetic of the code wraps at this width.
IntBits == 5

\* ------------------------------------------------------- program constants
StatusOK == 200
StatusBadRequest == 400
StatusNotFound == 404
StatusInternalServerError == 500
Reqs == 1 .. NumReq

\* ---------------------------------------------------------- int64 arithmetic
RECURSIVE Pow2(_)
Pow2(n) == IF n = 0 THEN 1 ELSE 2 * Pow2(n - 1)

MaxInt64 == Pow2(IntBits - 1) - 1
MinInt64 == 0 - Pow2(IntBits - 1)

\* Two's complement wrap-around of Go's int64 arithmetic.
Wrap64(x) == ((x - MinInt64) % Pow2(IntBits)) + MinInt64

Min(a, b) == IF a < b THEN a ELSE b

\* ------------------------------------------------------------ the CT log
\* The log is append-only: the entry at a position never changes.
LogEntry(p) == [LeafInput |-> p, ExtraData |-> 100 + p]

\* n consecutive log entries starting at position s.
LogRange(s, n) == [i \in 1 .. n |-> LogEntry(s + i - 1)]

\* ------------------------------------------------------------ query parsing
\* A raw query parameter: missing (""), not a decimal number, or the decimal
\* text of the integer val.
RawParam(kind, val) == [kind |-> kind, val |-> val]

\* A ParseInt that reads text that is no number as 0.
ParseInt_TextIsZero(p) ==
    IF p.kind = "text" THEN [err |-> "nil", val |-> 0]
    ELSE IF p.val > MaxInt64 THEN [err |-> "value out of range", val |-> MaxInt64]
    ELSE IF p.val < MinInt64 THEN [err |-> "value out of range", val |-> MinInt64]
    ELSE [err |-> "nil", val |-> p.val]

\* strconv.ParseInt(s, 10, 64): an error for text that is no number and for a
\* number outside the int64 range.
ParseInt(p) ==
    IF p.kind = "text" THEN [err |-> "invalid syntax", val |-> 0]
    ELSE IF p.val > MaxInt64 THEN [err |-> "value out of range", val |-> MaxInt64]
    ELSE IF p.val < MinInt64 THEN [err |-> "value out of range", val |-> MinInt64]
    ELSE [err |-> "nil", val |-> p.val]

\* parseQueryParams without the conversion of the closed end to a half-open one.
parseQueryParams_ClosedEnd(ps, pe) ==
    IF ps.kind = "missing" THEN [err |-> "missing start parameter", start |-> 0, end |-> 0]
    ELSE IF pe.kind = "missing" THEN [err |-> "missing end parameter", start |-> 0, end |-> 0]
    ELSE LET s == ParseInt(ps)
             e == ParseInt(pe)
         IN  IF s.err # "nil" \/ s.val < 0
                 THEN [err |-> "invalid start parameter", start |-> 0, end |-> 0]
             ELSE IF e.err # "nil" \/ e.val < 0
                 THEN [err |-> "invalid end parameter", start |-> 0, end |-> 0]
             ELSE IF e.val < s.val
                 THEN [err |-> "end must be greater than or equal to start",
                       start |-> 0, end |-> 0]
             ELSE [err |-> "nil", start |-> s.val, end |-> e.val]

parseQueryParams(ps, pe) ==
    IF ps.kind = "missing" THEN [err |-> "missing start parameter", start |-> 0, end |-> 0]
    ELSE IF pe.kind = "missing" THEN [err |-> "missing end parameter", start |-> 0, end |-> 0]
    ELSE LET s == ParseInt(ps)
             e == ParseInt(pe)
         IN  IF s.err # "nil" \/ s.val < 0
                 THEN [err |-> "invalid start parameter", start |-> 0, end |-> 0]
             ELSE IF e.err # "nil" \/ e.val < 0
                 THEN [err |-> "invalid end parameter", start |-> 0, end |-> 0]
             ELSE IF e.val < s.val
                 THEN [err |-> "end must be greater than or equal to start",
                       start |-> 0, end |-> 0]
             ELSE [err |-> "nil", start |-> s.val, end |-> Wrap64(e.val + 1)]

\* ------------------------------------------------------------ tile addressing
makeTile(start, size) ==
    LET tileOffset == start % size
        tileStart == Wrap64(start - tileOffset)
    IN  [start |-> tileStart, end |-> Wrap64(tileStart + size), size |-> size]

\* A key that leaves the tile's start out.
key_NoStart(t) == <<"tile_size=", t.size, "/", 0, ".cbor.gz">>

\* The S3 key "tile_size=<size>/<start>.cbor.gz".
key(t) == <<"tile_size=", t.size, "/", t.start, ".cbor.gz">>

\* A URL that passes the half-open end on as if it were the closed one.
url_HalfOpen(t) == [path |-> "/ct/v1/get-entries", start |-> t.start, end |-> t.end]

\* The backend URL "<logURL>/ct/v1/get-entries?start=<start>&end=<end-1>".
\* Use end-1: tiles are half-open intervals, the CT protocol's are closed.
url(t) == [path |-> "/ct/v1/get-entries", start |-> t.start, end |-> Wrap64(t.end - 1)]

\* The text of a URL, as error messages print it.
urlText(u) == <<u.path, "?start=", ToString(u.start), "&end=", ToString(u.end)>>

\* ------------------------------------------------------------ serialization
\* The object format of writeToS3/getFromS3: the CBOR encoding of the entries
\* struct, gzip-compressed.  CBOR is modelled as the array length followed by
\* the two byte strings of every entry; gzip as a header, the payload and a
\* trailer holding the payload's checksum and length.
RECURSIVE cborItems(_)
cborItems(es) ==
    IF es = <<>> THEN <<>>
    ELSE <<es[1].LeafInput, es[1].ExtraData>> \o cborItems(Tail(es))

cborEncode(es) == <<Len(es)>> \o cborItems(es)

RECURSIVE SumSeq(_)
SumSeq(b) == IF b = <<>> THEN 0 ELSE b[1] + SumSeq(Tail(b))

gzipCompress(payload) == <<"gzip">> \o payload \o <<SumSeq(payload), Len(payload)>>

\* gzip.NewReader: fails on anything that does not start with a gzip header.
gzipHeaderOk(b) == Len(b) >= 1 /\ b[1] = "gzip"

\* Reading the gzip stream to its end: the payload, or an error when the
\* stream is cut short or its trailer does not match.
gzipPayload(b) ==
    IF Len(b) < 3 THEN [err |-> "unexpected EOF", payload |-> <<>>]
    ELSE LET payload == SubSeq(b, 2, Len(b) - 2)
         IN  IF b[Len(b)] # Len(payload) \/ b[Len(b) - 1] # SumSeq(payload)
                 THEN [err |-> "gzip: invalid checksum", payload |-> <<>>]
                 ELSE [err |-> "nil", payload |-> payload]

\* A decoder that reads the two byte strings of an entry in the wrong order.
cborDecode_Swapped(payload) ==
    IF payload = <<>> THEN [err |-> "EOF", entries |-> <<>>]
    ELSE IF Len(payload) # 1 + 2 * payload[1]
        THEN [err |-> "cbor: malformed", entries |-> <<>>]
    ELSE [err |-> "nil",
          entries |-> [i \in 1 .. payload[1] |->
                         [LeafInput |-> payload[2 * i + 1], ExtraData |-> payload[2 * i]]]]

cborDecode(payload) ==
    IF payload = <<>> THEN [err |-> "EOF", entries |-> <<>>]
    ELSE IF Len(payload) # 1 + 2 * payload[1]
        THEN [err |-> "cbor: malformed", entries |-> <<>>]
    ELSE [err |-> "nil",
          entries |-> [i \in 1 .. payload[1] |->
                         [LeafInput |-> payload[2 * i], ExtraData |-> payload[2 * i + 1]]]]

\* ------------------------------------------------------------ the backend
\* What the backing CT log can answer to GET u, in a log of n entries: a
\* transport error, a non-200 status with a body, a non-200 status whose
\* body cannot be read to its end, a 200 whose body is no JSON, or a 200
\* with a list of consecutive entries starting at u.start.
\* The list is any prefix of what the log holds from u.start on, up to one
\* entry more than was asked for.
BackendErrors ==
    { [code |-> StatusBadRequest, body |-> <<"need tree size">>],
      [code |-> StatusNotFound, body |-> <<"404 page not found">>] }

BackendAnswers(u, n) ==
    { [kind |-> "neterr", code |-> 0, body |-> <<>>, entries |-> <<>>],
      [kind |-> "badjson", code |-> StatusOK, body |-> <<>>, entries |-> <<>>] }
    \cup { [kind |-> "status", code |-> e.code, body |-> e.body, entries |-> <<>>] :
             e \in BackendErrors }
    \cup { [kind |-> "cutbody", code |-> StatusNotFound, body |-> <<>>, entries |-> <<>>] }
    \cup { [kind |-> "ok", code |-> StatusOK, body |-> <<>>, entries |-> LogRange(u.start, k)] :
             k \in 0 .. (IF u.start >= 0 /\ u.end >= u.start /\ u.start < n
                            THEN Min(n - u.start, u.end - u.start + 2)
                            ELSE 0) }

\* statusCodeError.Error()
statusCodeErrorText(code, body) ==
    <<"backend responded with status code ", ToString(code), " and body:\n">> \o body

\* getTileFromBackend without the check of the number of entries.
getTileFromBackend_NoCountCheck(t, resp) ==
    IF resp.kind = "neterr"
        THEN [err |-> "fetching", statusCode |-> 0,
              text |-> <<"fetching ">> \o urlText(url(t)) \o <<": connection refused">>, entries |-> <<>>]
    ELSE IF resp.code # StatusOK /\ resp.kind = "cutbody"
        THEN [err |-> "reading body", statusCode |-> 0,
              text |-> <<"reading body from ">> \o urlText(url(t)) \o <<": unexpected EOF">>,
              entries |-> <<>>]
    ELSE IF resp.code # StatusOK
        THEN [err |-> "statusCodeError", statusCode |-> resp.code,
              text |-> statusCodeErrorText(resp.code, resp.body), entries |-> <<>>]
    ELSE IF resp.kind = "badjson"
        THEN [err |-> "reading body", statusCode |-> 0,
              text |-> <<"reading body from ">> \o urlText(url(t)) \o <<": invalid character">>,
              entries |-> <<>>]
    ELSE [err |-> "nil", statusCode |-> 0, text |-> <<>>, entries |-> resp.entries]

\* getTileFromBackend: the GET of the tile's URL, the status check, the JSON
\* decoding of the body and the check of the number of entries.
getTileFromBackend(t, resp) ==
    IF resp.kind = "neterr"
        THEN [err |-> "fetching", statusCode |-> 0,
              text |-> <<"fetching ">> \o urlText(url(t)) \o <<": connection refused">>, entries |-> <<>>]
    ELSE IF resp.code # StatusOK /\ resp.kind = "cutbody"
        THEN [err |-> "reading body", statusCode |-> 0,
              text |-> <<"reading body from ">> \o urlText(url(t)) \o <<": unexpected EOF">>,
              entries |-> <<>>]
    ELSE IF resp.code # StatusOK
        THEN [err |-> "statusCodeError", statusCode |-> resp.code,
              text |-> statusCodeErrorText(resp.code, resp.body), entries |-> <<>>]
    ELSE IF resp.kind = "badjson"
        THEN [err |-> "reading body", statusCode |-> 0,
              text |-> <<"reading body from ">> \o urlText(url(t)) \o <<": invalid character">>,
              entries |-> <<>>]
    ELSE IF Len(resp.entries) > t.size \/ Len(resp.entries) = 0
        THEN [err |-> "entry count", statusCode |-> 0,
              text |-> <<"expected ", ToString(t.size), " entries, got ",
                         ToString(Len(resp.entries))>>,
              entries |-> <<>>]
    ELSE [err |-> "nil", statusCode |-> 0, text |-> <<>>, entries |-> resp.entries]

\* ------------------------------------------------------------ the S3 cache
\* What S3 can answer to GetObject for key k when the bucket holds the
\* objects of store: NoSuchKey when there is no such object, a service error
\* at any time, and otherwise a body.  The body is the stored object, or a
\* body the reader cannot use: one that is no gzip stream, one that was cut
\* short, or a well-formed object that holds fewer entries than a tile.
DamagedBodies(b) ==
    { <<"junk">> \o Tail(b),
      SubSeq(b, 1, Len(b) - 1),
      gzipCompress(cborEncode(Tail((cborDecode(gzipPayload(b).payload)).entries))) }

GetObjectAnswers(store, k) ==
    { [kind |-> "error", body |-> <<>>] }
    \cup (IF k \in DOMAIN store
            THEN { [kind |-> "ok", body |-> b] : b \in {store[k]} \cup DamagedBodies(store[k]) }
            ELSE { [kind |-> "NoSuchKey", body |-> <<>>] })

\* getFromS3 reporting every GetObject error as noSuchKey.
getFromS3_ErrorIsMiss(t, resp) ==
    IF resp.kind = "NoSuchKey" \/ resp.kind = "error"
        THEN [err |-> "noSuchKey", entries |-> <<>>]
    ELSE IF ~gzipHeaderOk(resp.body) THEN [err |-> "making gzipReader", entries |-> <<>>]
    ELSE LET z == gzipPayload(resp.body)
             d == cborDecode(z.payload)
         IN  IF z.err # "nil" \/ d.err # "nil"
                 THEN [err |-> "reading body from bucket", entries |-> <<>>]
             ELSE IF Len(d.entries) # t.size \/ t.end # Wrap64(t.start + t.size)
                 THEN [err |-> "internal inconsistency", entries |-> <<>>]
             ELSE [err |-> "nil", entries |-> d.entries]

\* getFromS3 without the check of the decoded batch's length.
getFromS3_NoLenCheck(t, resp) ==
    IF resp.kind = "NoSuchKey" THEN [err |-> "noSuchKey", entries |-> <<>>]
    ELSE IF resp.kind = "error" THEN [err |-> "getting from bucket", entries |-> <<>>]
    ELSE IF ~gzipHeaderOk(resp.body) THEN [err |-> "making gzipReader", entries |-> <<>>]
    ELSE LET z == gzipPayload(resp.body)
             d == cborDecode(z.payload)
         IN  IF z.err # "nil" \/ d.err # "nil"
                 THEN [err |-> "reading body from bucket", entries |-> <<>>]
             ELSE [err |-> "nil", entries |-> d.entries]

\* getFromS3: GetObject of the tile's key, gunzip, CBOR decoding and the
\* check that the batch has the tile's size.
getFromS3(t, resp) ==
    IF resp.kind = "NoSuchKey" THEN [err |-> "noSuchKey", entries |-> <<>>]
    ELSE IF resp.kind = "error" THEN [err |-> "getting from bucket", entries |-> <<>>]
    ELSE IF ~gzipHeaderOk(resp.body) THEN [err |-> "making gzipReader", entries |-> <<>>]
    ELSE LET z == gzipPayload(resp.body)
             d == cborDecode(z.payload)
         IN  IF z.err # "nil" \/ d.err # "nil"
                 THEN [err |-> "reading body from bucket", entries |-> <<>>]
             ELSE IF Len(d.entries) # t.size \/ t.end # Wrap64(t.start + t.size)
                 THEN [err |-> "internal inconsistency", entries |-> <<>>]
             ELSE [err |-> "nil", entries |-> d.entries]

\* An object that holds all entries of the batch but its last.
objectBody_DropsLast(es) == gzipCompress(cborEncode(SubSeq(es, 1, Len(es) - 1)))

\* The object writeToS3 builds for a batch.
objectBody(es) == gzipCompress(cborEncode(es))

\* writeToS3 for tile t and batch es.  encFails: the CBOR encoder reports an
\* error; putFails: PutObject reports an error.  put says whether PutObject
\* was called, stored whether the object is in the bucket afterwards.
writeToS3(t, es, encFails, putFails) ==
    IF Len(es) # t.size \/ t.end # Wrap64(t.start + t.size)
        THEN [err |-> "internal inconsistency", put |-> FALSE, stored |-> FALSE]
    ELSE IF encFails
        THEN [err |-> "nil", put |-> FALSE, stored |-> FALSE]
    ELSE IF putFails
        THEN [err |-> "putting in bucket", put |-> TRUE, stored |-> FALSE]
    ELSE [err |-> "nil", put |-> TRUE, stored |-> TRUE]

\* Taking every error of getFromS3 for noSuchKey.
isNoSuchKey_AnyError(err) == err # "nil"

\* errors.Is(err, noSuchKey{})
isNoSuchKey(err) == err = "noSuchKey"

\* ------------------------------------------------------------ state
VARIABLES
    logSize,    \* the number of entries in the backing CT log
    s3,         \* the bucket: a function from keys to object bodies
    req,        \* per request slot: where its ServeHTTP is and what it holds
    hist        \* per request slot: a record of the I/O the request has done

vars == <<logSize, s3, req, hist>>

\* Response bodies.
noBody == [kind |-> "none", text |-> <<>>, entries |-> <<>>]
textBody(t) == [kind |-> "text", text |-> t, entries |-> <<>>]
jsonBody(es) == [kind |-> "json", text |-> <<>>, entries |-> es]

noTile == [start |-> 0, end |-> 0, size |-> 0]
noURL == [path |-> "", start |-> 0, end |-> 0]
noParam == RawParam("missing", 0)

\* A request slot before its first request.
idleReq ==
    [pc |-> "idle", start |-> 0, end |-> 0, tile |-> noTile, contents |-> <<>>,
     source |-> "", partial |-> FALSE, respLen |-> -1,
     status |-> 0, body |-> noBody, panicked |-> FALSE]

\* The record of a request that has done no I/O yet.
newHist(pathOk, ps, pe, cached) ==
    [pathOk |-> pathOk, ps |-> ps, pe |-> pe, hasParams |-> TRUE,
     cachedAtArrival |-> cached,
     nGet |-> 0, nFetch |-> 0, nPut |-> 0,
     getKind |-> "", getErr |-> "",
     fetchURL |-> noURL, fetchErr |-> "", fetchLen |-> -1,
     backendKind |-> "", backendCode |-> 0, backendBody |-> <<>>, backendLen |-> -1,
     writeFault |-> "", writeErr |-> "", stored |-> FALSE, overwrote |-> FALSE,
     batch |-> <<>>]

Init ==
    /\ logSize = 0
    /\ s3 = << >>
    /\ req = [r \in Reqs |-> idleReq]
    /\ hist = [r \in Reqs |-> newHist(FALSE, noParam, noParam, FALSE)]

\* ------------------------------------------------------------ the handler
\* w.WriteHeader(status) and the body written after it; the handler returns.
\* The slot keeps the range and the tile of the request it answered.
respond(q, status, body) ==
    [q EXCEPT !.pc = "done", !.status = status, !.body = body, !.contents = <<>>]

\* An error path that starts the request over at the cache lookup instead of
\* returning.
fail_Retry(status, body) == [idleReq EXCEPT !.pc = "getFromS3"]

\* An error response written before the handler has a batch: no header is
\* set yet, and the slot keeps nothing of the request but the response.
fail(status, body) == respond(idleReq, status, body)

\* What the record keeps of a request that failed before it had a batch.
forget(h) ==
    [h EXCEPT !.ps = noParam, !.pe = noParam, !.hasParams = FALSE, !.batch = <<>>]

\* A runtime panic in the handler: net/http recovers it and drops the
\* connection; no status and no body are written.
panic(q) == [q EXCEPT !.pc = "done", !.panicked = TRUE, !.contents = <<>>]

\* The truncation with the out-of-range test off by one (> for >=).
truncateAndRespond_OffByOne(q) ==
    LET prefixToRemove == Wrap64(q.start - q.tile.start)
        n == Len(q.contents)
    IN  IF prefixToRemove > n
            THEN respond(q, StatusBadRequest,
                         textBody(<<"requested range is past the end of the log">>))
        ELSE IF prefixToRemove < 0 THEN panic(q)
        ELSE LET rest == SubSeq(q.contents, prefixToRemove + 1, n)
                 requestedLen == Wrap64(q.end - q.start)
             IN  IF Len(rest) > requestedLen
                     THEN IF requestedLen < 0 THEN panic(q)
                          ELSE respond([q EXCEPT !.respLen = requestedLen], StatusOK,
                                       jsonBody(SubSeq(rest, 1, requestedLen)))
                     ELSE respond([q EXCEPT !.respLen = Len(rest)], StatusOK,
                                  jsonBody(rest))

\* The end of ServeHTTP: truncate the batch to the request and respond.
truncateAndRespond(q) ==
    LET prefixToRemove == Wrap64(q.start - q.tile.start)
        n == Len(q.contents)
    IN  IF prefixToRemove >= n
            THEN respond(q, StatusBadRequest,
                         textBody(<<"requested range is past the end of the log">>))
        ELSE IF prefixToRemove < 0 THEN panic(q)
        ELSE LET rest == SubSeq(q.contents, prefixToRemove + 1, n)
                 requestedLen == Wrap64(q.end - q.start)
             IN  IF Len(rest) > requestedLen
                     THEN IF requestedLen < 0 THEN panic(q)
                          ELSE respond([q EXCEPT !.respLen = requestedLen], StatusOK,
                                       jsonBody(SubSeq(rest, 1, requestedLen)))
                     ELSE respond([q EXCEPT !.respLen = Len(rest)], StatusOK,
                                  jsonBody(rest))

\* Taking every batch the backend fetch accepted for a full tile.
isFullTile_AnyLen(es) == Len(es) <= TileSize

\* Taking no fetched batch for a full tile.
isFullTile_Never(es) == FALSE

\* The condition under which ServeHTTP writes a fetched batch to S3.
isFullTile(es) == Len(es) = TileSize

\* Answering every failed backend fetch with 500.
fetchErrorStatus_Always500(b) == StatusInternalServerError

\* The status ServeHTTP answers with when the backend fetch failed.
fetchErrorStatus(b) ==
    IF b.err = "statusCodeError" THEN b.statusCode ELSE StatusInternalServerError

\* The requests a client can send: a wrong path; a range of positions of the
\* log, or one that ends at the largest int64; the largest int64 as start;
\* and one request for each way a parameter can be unusable.
Positions == 0 .. (MaxLog - 1)

GoodParams == { RawParam("num", v) : v \in Positions \cup {MaxInt64} }

BadParams ==
    { RawParam("missing", 0), RawParam("text", 0), RawParam("num", -1),
      RawParam("num", MaxInt64 + 1) }

Requests ==
    { [pathOk |-> FALSE, ps |-> noParam, pe |-> noParam] }
    \cup { in \in { [pathOk |-> TRUE, ps |-> a, pe |-> b] : a \in GoodParams, b \in GoodParams } :
             in.pe.val >= in.ps.val }
    \cup { [pathOk |-> TRUE, ps |-> RawParam("num", 1), pe |-> RawParam("num", 0)] }
    \cup { [pathOk |-> TRUE, ps |-> a, pe |-> RawParam("num", 0)] : a \in BadParams }
    \cup { [pathOk |-> TRUE, ps |-> RawParam("num", 0), pe |-> b] : b \in BadParams }

\* ServeHTTP from its start to the call of getFromS3: the path check,
\* parseQueryParams and makeTile.
Receive(r) ==
    /\ req[r].pc = "idle"
    /\ \E in \in Requests :
        LET p == parseQueryParams(in.ps, in.pe)
            t == makeTile(p.start, TileSize)
        IN  /\ req' = [req EXCEPT ![r] =
                  IF ~in.pathOk
                      THEN fail(StatusNotFound, textBody(<<"invalid path", "\n">>))
                  ELSE IF p.err # "nil"
                      THEN fail(StatusBadRequest, textBody(<<p.err, "\n">>))
                  ELSE [idleReq EXCEPT !.pc = "getFromS3", !.start = p.start,
                                       !.end = p.end, !.tile = t]]
            /\ hist' = [hist EXCEPT ![r] =
                  newHist(in.pathOk, in.ps, in.pe,
                          in.pathOk /\ p.err = "nil" /\ key(t) \in DOMAIN s3)]
    /\ UNCHANGED <<logSize, s3>>

\* getFromS3 and what ServeHTTP does with its result: 500 on an error, on to
\* the backend on noSuchKey, and the response on a hit.
CacheLookup(r) ==
    /\ req[r].pc = "getFromS3"
    /\ \E resp \in GetObjectAnswers(s3, key(req[r].tile)) :
        LET q == req[r]
            g == getFromS3(q.tile, resp)
        IN  /\ req' = [req EXCEPT ![r] =
                  IF g.err # "nil" /\ ~isNoSuchKey(g.err)
                      THEN fail(StatusInternalServerError,
                                textBody(<<"reading from s3: ", g.err, "\n">>))
                  ELSE IF isNoSuchKey(g.err)
                      THEN [q EXCEPT !.pc = "getTileFromBackend"]
                  ELSE truncateAndRespond([q EXCEPT !.contents = g.entries,
                                                    !.source = "S3"])]
            /\ hist' = [hist EXCEPT ![r] =
                  LET h == [hist[r] EXCEPT
                               !.nGet = @ + 1,
                               !.getKind = IF resp.kind = "ok" /\ resp.body # s3[key(q.tile)]
                                               THEN "damaged" ELSE resp.kind,
                               !.getErr = g.err,
                               !.batch = g.entries]
                  IN  IF g.err # "nil" /\ ~isNoSuchKey(g.err) THEN forget(h) ELSE h]
    /\ UNCHANGED <<logSize, s3>>

\* getTileFromBackend and what ServeHTTP does with its result: the error
\* response, on to writeToS3 with a full tile, and the response for a
\* partial tile.
BackendFetch(r) ==
    /\ req[r].pc = "getTileFromBackend"
    /\ \E resp \in BackendAnswers(url(req[r].tile), logSize) :
        LET q == req[r]
            b == getTileFromBackend(q.tile, resp)
        IN  /\ req' = [req EXCEPT ![r] =
                  IF b.err # "nil"
                      THEN fail(fetchErrorStatus(b), textBody(b.text \o <<"\n">>))
                  ELSE IF isFullTile(b.entries)
                      THEN [q EXCEPT !.pc = "writeToS3", !.contents = b.entries]
                  ELSE truncateAndRespond([q EXCEPT !.contents = b.entries,
                                                    !.partial = TRUE,
                                                    !.source = "CT log"])]
            /\ hist' = [hist EXCEPT ![r] =
                  LET h == [hist[r] EXCEPT
                               !.nFetch = @ + 1,
                               !.fetchURL = url(q.tile),
                               !.fetchErr = b.err,
                               !.fetchLen = IF b.err = "nil" THEN Len(b.entries) ELSE -1,
                               !.batch = b.entries,
                               !.backendKind = resp.kind,
                               !.backendCode = resp.code,
                               !.backendBody = resp.body,
                               !.backendLen = IF resp.kind = "ok" THEN Len(resp.entries)
                                              ELSE -1]
                  IN  IF b.err # "nil" THEN forget(h) ELSE h]
    /\ UNCHANGED <<logSize, s3>>

\* writeToS3 and what ServeHTTP does with its result: 500 on an error, the
\* response otherwise.
PersistFull(r) ==
    /\ req[r].pc = "writeToS3"
    /\ \E fault \in {"none", "encode", "put"} :
        LET q == req[r]
            w == writeToS3(q.tile, q.contents, fault = "encode", fault = "put")
        IN  /\ s3' = IF w.stored THEN (key(q.tile) :> objectBody(q.contents)) @@ s3 ELSE s3
            /\ req' = [req EXCEPT ![r] =
                  IF w.err # "nil"
                      THEN fail(StatusInternalServerError,
                                textBody(<<"writing to s3: ", w.err, "\n">>))
                  ELSE truncateAndRespond([q EXCEPT !.source = "CT log"])]
            /\ hist' = [hist EXCEPT ![r] =
                  LET h == [hist[r] EXCEPT
                               !.nPut = @ + (IF w.put THEN 1 ELSE 0),
                               !.writeFault = fault,
                               !.writeErr = w.err,
                               !.stored = w.stored,
                               !.overwrote = w.stored /\ key(q.tile) \in DOMAIN s3]
                  IN  IF w.err # "nil" THEN forget(h) ELSE h]
    /\ UNCHANGED logSize

\* The response has been delivered and the handler has returned: the slot is
\* free for the next request.
Release(r) ==
    /\ req[r].pc = "done"
    /\ req' = [req EXCEPT ![r] = idleReq]
    /\ hist' = [hist EXCEPT ![r] = newHist(FALSE, noParam, noParam, FALSE)]
    /\ UNCHANGED <<logSize, s3>>

\* The log grows by one entry; it never shrinks and never rewrites an entry.
AppendLog ==
    /\ logSize < MaxLog
    /\ logSize' = logSize + 1
    /\ UNCHANGED <<s3, req, hist>>

Next ==
    \/ \E r \in Reqs : Receive(r)
    \/ \E r \in Reqs : CacheLookup(r)
    \/ \E r \in Reqs : BackendFetch(r)
    \/ \E r \in Reqs : PersistFull(r)
    \/ \E r \in Reqs : Release(r)
    \/ AppendLog

Spec == Init /\ [][Next]_vars

\* ------------------------------------------------------------ properties
Done(r) == req[r].pc = "done"

\* The request got a batch (from the cache or from the backend) and reached
\* the truncation: X-Source is set exactly on these requests.
HadBatch(r) == Done(r) /\ req[r].source # ""

\* The requested closed range [ReqStart, ReqEnd] as the client wrote it.
ReqStart(r) == hist[r].ps.val
ReqEnd(r) == hist[r].pe.val

pastEndBody == textBody(<<"requested range is past the end of the log">>)

\* C1, as stated: once a full tile fetched from the backend has been stored
\* in the cache, every request that arrives later for the same tile is
\* served from the cache (200, X-Source: S3) and fetches nothing from the
\* backend.
C1_ServedFromCache ==
    \A r \in Reqs :
        (hist[r].cachedAtArrival /\ Done(r)) =>
            /\ req[r].status = StatusOK
            /\ req[r].source = "S3"
            /\ hist[r].nFetch = 0

\* C1, amended: once a full tile has been stored in the cache, a request that
\* arrives later for the same tile never gets NotFound from the cache and
\* never fetches from the backend; when its cache read succeeds its batch is
\* the stored tile and X-Source is S3, and when the cache read fails it is
\* answered 500.
C1_WriteThrough ==
    \A r \in Reqs :
        hist[r].cachedAtArrival =>
            /\ hist[r].nFetch = 0
            /\ hist[r].getKind # "NoSuchKey"
            /\ req[r].pc \in {"getFromS3", "done"}
            /\ hist[r].getKind = "ok" =>
                   /\ req[r].source = "S3"
                   /\ hist[r].batch = LogRange(req[r].tile.start, TileSize)
            /\ hist[r].getKind \in {"error", "damaged"} =>
                   req[r].status = StatusInternalServerError

C1_Witness ==
    \E r \in Reqs :
        /\ hist[r].cachedAtArrival
        /\ Done(r)
        /\ req[r].status = StatusOK
        /\ req[r].source = "S3"
        /\ hist[r].nGet = 1

\* C2, as stated: when the backend returns fewer than TileSize entries, the
\* request writes nothing to the cache and its response carries
\* X-Partial-Tile.
C2_FewerThanTileSize ==
    \A r \in Reqs :
        (Done(r) /\ hist[r].backendLen >= 0 /\ hist[r].backendLen < TileSize) =>
            /\ hist[r].nPut = 0
            /\ ~hist[r].stored
            /\ req[r].partial

\* C2, amended: when the backend returns at least one and fewer than TileSize
\* entries, the request writes nothing to the cache and X-Partial-Tile is
\* set on its response.
C2_PartialNotPersisted ==
    \A r \in Reqs :
        (hist[r].backendLen >= 1 /\ hist[r].backendLen < TileSize) =>
            /\ Done(r)
            /\ hist[r].nPut = 0
            /\ ~hist[r].stored
            /\ req[r].partial

C2_Witness ==
    \E r \in Reqs :
        /\ hist[r].backendLen >= 1
        /\ hist[r].backendLen < TileSize
        /\ req[r].status = StatusOK
        /\ req[r].partial
        /\ logSize = req[r].tile.start + hist[r].backendLen

\* C3: every backend fetch asks for the closed range [tile.start, tile.end-1],
\* which is TileSize positions for every tile that ends within the int64
\* range; and in every 200 response the k-th entry (from 0) is the log entry
\* at position start + k, from the backend and from the cache alike.
C3_PositionCorrect ==
    \A r \in Reqs :
        /\ (hist[r].nFetch = 1 /\ req[r].tile.size > 0) =>
               /\ hist[r].fetchURL.start = req[r].tile.start
               /\ hist[r].fetchURL.end = Wrap64(req[r].tile.end - 1)
               /\ req[r].tile.end > req[r].tile.start =>
                      hist[r].fetchURL.end - hist[r].fetchURL.start + 1 = TileSize
        /\ (Done(r) /\ req[r].status = StatusOK) =>
               /\ req[r].source \in {"S3", "CT log"}
               /\ Len(req[r].body.entries) >= 1
               /\ \A k \in 0 .. (Len(req[r].body.entries) - 1) :
                      req[r].body.entries[k + 1] = LogEntry(ReqStart(r) + k)

C3_Witness ==
    \E r1, r2 \in Reqs :
        /\ Done(r1) /\ req[r1].status = StatusOK /\ req[r1].source = "CT log"
        /\ ReqStart(r1) > req[r1].tile.start
        /\ Done(r2) /\ req[r2].status = StatusOK /\ req[r2].source = "S3"
        /\ ReqStart(r2) > req[r2].tile.start

\* C4: for a batch of n entries and prefix = start - tile.start < n, the 200
\* response holds exactly the batch entries at offsets
\* [prefix, prefix + min(n - prefix, end - start + 1)), in order, and never
\* more entries than were requested.
C4_Truncation ==
    \A r \in Reqs :
        (HadBatch(r) /\ ~req[r].panicked) =>
            LET n == Len(hist[r].batch)
                prefix == ReqStart(r) - req[r].tile.start
                requestedLen == ReqEnd(r) - ReqStart(r) + 1
            IN  /\ req[r].status = StatusOK <=> prefix < n
                /\ req[r].status = StatusOK =>
                       /\ req[r].body.entries =
                              SubSeq(hist[r].batch, prefix + 1,
                                     prefix + Min(n - prefix, requestedLen))
                       /\ Len(req[r].body.entries) <= requestedLen
                       /\ req[r].respLen = Len(req[r].body.entries)

C4_Witness ==
    \E r1, r2 \in Reqs :
        /\ HadBatch(r1) /\ req[r1].status = StatusOK
        /\ Len(req[r1].body.entries) < Len(hist[r1].batch) - (ReqStart(r1) - req[r1].tile.start)
        /\ HadBatch(r2) /\ req[r2].status = StatusOK
        /\ ReqStart(r2) > req[r2].tile.start
        /\ Len(req[r2].body.entries) < ReqEnd(r2) - ReqStart(r2) + 1

C6_OutOfRange ==
    \A r \in Reqs :
        HadBatch(r) =>
            LET offset == ReqStart(r) - req[r].tile.start
                n == Len(hist[r].batch)
            IN  /\ offset >= n =>
                       /\ req[r].status = StatusBadRequest
                       /\ req[r].body = pastEndBody
                       /\ req[r].body.entries = <<>>
                       /\ req[r].respLen = -1
                /\ offset < n =>
                       /\ req[r].status # StatusBadRequest
                       /\ req[r].body # pastEndBody

C6_Witness ==
    \E r \in Reqs :
        /\ HadBatch(r)
        /\ req[r].status = StatusBadRequest
        /\ ReqStart(r) - req[r].tile.start >= Len(hist[r].batch)
        /\ Len(hist[r].batch) >= 1

\* C7: every object in the cache decodes to a batch whose length is the tile
\* size of its key.
C7_StoredBatchIsFull ==
    \A k \in DOMAIN s3 :
        LET z == gzipPayload(s3[k])
            d == cborDecode(z.payload)
        IN  /\ gzipHeaderOk(s3[k])
            /\ z.err = "nil"
            /\ d.err = "nil"
            /\ Len(d.entries) = k[2]

C7_Witness == Cardinality(DOMAIN s3) >= 2

\* C8: once a key is written its object never changes: every later write to
\* the key, by whichever request and in whatever order, stores the same body.
C8_BenignWriteRace ==
    [][\A k \in DOMAIN s3 : k \in DOMAIN s3' /\ s3'[k] = s3[k]]_vars

\* Two requests missed the cache for the same tile and both stored it.
C8_Witness ==
    \E r1, r2 \in Reqs :
        /\ r1 # r2
        /\ hist[r1].stored /\ hist[r2].stored
        /\ hist[r2].overwrote
        /\ ~hist[r2].cachedAtArrival
        /\ req[r1].tile = req[r2].tile

\* C9: a request served from the cache is answered like the identical
\* request that fetched the tile from the backend and stored it: 200 with the
\* same entries and the same X-Response-Len, no X-Partial-Tile, and no
\* backend fetch.
C9_CacheEqualsBackend ==
    \A r1, r2 \in Reqs :
        ( /\ Done(r1) /\ req[r1].source = "CT log" /\ hist[r1].stored
          /\ req[r1].status = StatusOK
          /\ Done(r2) /\ req[r2].source = "S3"
          /\ hist[r2].ps = hist[r1].ps /\ hist[r2].pe = hist[r1].pe ) =>
            /\ req[r2].status = StatusOK
            /\ req[r2].body = req[r1].body
            /\ req[r2].respLen = req[r1].respLen
            /\ req[r2].partial = req[r1].partial
            /\ ~req[r2].partial
            /\ hist[r2].nFetch = 0
            /\ hist[r1].nFetch = 1

C9_Witness ==
    \E r1, r2 \in Reqs :
        /\ Done(r1) /\ req[r1].source = "CT log" /\ hist[r1].stored
        /\ req[r1].status = StatusOK
        /\ Done(r2) /\ req[r2].source = "S3" /\ req[r2].status = StatusOK
        /\ hist[r2].ps = hist[r1].ps /\ hist[r2].pe = hist[r1].pe
        /\ Len(req[r2].body.entries) >= 1

\* C10: when the cache read fails otherwise than with NoSuchKey (a service
\* error, an object that does not decode, an object of another length than
\* the tile size) the request is answered 500 and neither fetches from the
\* backend nor writes to the cache; a backend fetch follows NoSuchKey only.
C10_CacheReadFailure ==
    \A r \in Reqs :
        /\ hist[r].getKind \in {"error", "damaged"} =>
               /\ Done(r)
               /\ req[r].status = StatusInternalServerError
               /\ req[r].body.entries = <<>>
               /\ hist[r].nFetch = 0
               /\ hist[r].nPut = 0
        /\ (hist[r].nFetch > 0 \/ req[r].pc \in {"getTileFromBackend", "writeToS3"}) =>
               hist[r].getKind = "NoSuchKey"

C10_Witness ==
    \E r1, r2 \in Reqs :
        /\ hist[r1].getKind = "damaged" /\ hist[r1].getErr = "internal inconsistency"
        /\ req[r1].status = StatusInternalServerError
        /\ hist[r2].getKind = "error"
        /\ req[r2].status = StatusInternalServerError

\* C11, as stated: every failure while persisting a full tile, a failure to
\* serialize the batch as much as a store write error, is answered 500; and a
\* request answered 200 for a full tile fetched from the backend has written
\* that tile to the cache.
C11_PersistFailureIs500 ==
    \A r \in Reqs :
        /\ hist[r].writeFault \in {"encode", "put"} =>
               /\ Done(r)
               /\ req[r].status = StatusInternalServerError
        /\ ( /\ Done(r)
             /\ req[r].status = StatusOK
             /\ req[r].source = "CT log"
             /\ hist[r].fetchLen = TileSize ) =>
               /\ hist[r].stored
               /\ key(req[r].tile) \in DOMAIN s3

\* The serialization of a full tile failed, nothing was put, and the request
\* was answered 200 from the backend's batch.
C11_Witness ==
    \E r \in Reqs :
        /\ hist[r].writeFault = "encode"
        /\ hist[r].writeErr = "nil"
        /\ hist[r].nPut = 0
        /\ ~hist[r].stored
        /\ key(req[r].tile) \notin DOMAIN s3
        /\ req[r].status = StatusOK
        /\ req[r].source = "CT log"
        /\ Len(req[r].body.entries) >= 1

\* A raw parameter that is missing, is no decimal number, is negative, or
\* does not fit an int64.
Unusable(p) == p.kind # "num" \/ p.val < 0 \/ p.val > MaxInt64

\* The request, as the client wrote it, that C12 is about.
BadRange(r) ==
    /\ hist[r].pathOk
    /\ hist[r].hasParams
    /\ \/ Unusable(hist[r].ps)
       \/ Unusable(hist[r].pe)
       \/ hist[r].pe.val < hist[r].ps.val

\* C12: a request whose start or end parameter is missing, malformed or
\* negative, or whose end is below its start, is answered 400 with no
\* entries, and does no cache lookup, no backend fetch and no cache write.
C12_BadParamsRejected ==
    \A r \in Reqs :
        BadRange(r) =>
            /\ Done(r)
            /\ req[r].status = StatusBadRequest
            /\ req[r].body.kind = "text"
            /\ req[r].body.entries = <<>>
            /\ req[r].source = ""
            /\ hist[r].nGet = 0
            /\ hist[r].nFetch = 0
            /\ hist[r].nPut = 0
            /\ ~hist[r].stored

\* One request with end below start and one with a start that is no number,
\* both answered 400.
C12_Witness ==
    \E r1, r2 \in Reqs :
        /\ BadRange(r1)
        /\ ~Unusable(hist[r1].ps) /\ ~Unusable(hist[r1].pe)
        /\ hist[r1].pe.val < hist[r1].ps.val
        /\ req[r1].status = StatusBadRequest
        /\ BadRange(r2)
        /\ hist[r2].ps.kind = "text"
        /\ req[r2].status = StatusBadRequest

\* C13: a 200 answer of the backend whose entry list is empty, cannot be
\* parsed, or is longer than the tile size is a protocol error: the request
\* is answered 500 with no entries and writes nothing to the cache.
C13_BadBackendBatch ==
    \A r \in Reqs :
        ( /\ hist[r].backendCode = StatusOK
          /\ \/ hist[r].backendKind = "badjson"
             \/ hist[r].backendLen = 0
             \/ hist[r].backendLen > TileSize ) =>
            /\ Done(r)
            /\ req[r].status = StatusInternalServerError
            /\ req[r].body.kind = "text"
            /\ req[r].body.entries = <<>>
            /\ hist[r].nPut = 0
            /\ ~hist[r].stored

\* One request got more entries than the tile size and one got none; both
\* were answered 500.
C13_Witness ==
    \E r1, r2 \in Reqs :
        /\ hist[r1].backendKind = "ok" /\ hist[r1].backendLen > TileSize
        /\ hist[r1].fetchErr = "entry count"
        /\ req[r1].status = StatusInternalServerError
        /\ hist[r2].backendKind = "ok" /\ hist[r2].backendLen = 0
        /\ req[r2].status = StatusInternalServerError

\* C14, as stated: for every requested start >= 0 in the int64 range the
\* tile t = makeTile(start, size) has t.start <= start < t.end,
\* t.start mod size = 0, t.start >= 0 and t.end = t.start + size.
C14_TileAlignment ==
    \A r \in Reqs :
        req[r].tile.size > 0 =>
            LET t == req[r].tile
                start == req[r].start
            IN  /\ start >= 0
                /\ t = makeTile(start, TileSize)
                /\ t.start <= start
                /\ start < t.end
                /\ t.start % t.size = 0
                /\ t.start >= 0
                /\ t.end = t.start + t.size

\* A request whose start lies in the topmost tile of the int64 range: the
\* tile's end has wrapped around and lies below its start.
C14_Witness ==
    \E r \in Reqs :
        /\ req[r].tile.size > 0
        /\ req[r].start = MaxInt64
        /\ req[r].tile.start <= req[r].start
        /\ req[r].tile.start % req[r].tile.size = 0
        /\ req[r].tile.end = MinInt64 + (req[r].tile.start + req[r].tile.size - MaxInt64 - 1)
        /\ req[r].tile.end < req[r].tile.start

\* What GetObject answers for a key when the store works and hands back the
\* object as it was put.
intactAnswer(store, k) ==
    IF k \in DOMAIN store THEN [kind |-> "ok", body |-> store[k]]
    ELSE [kind |-> "NoSuchKey", body |-> <<>>]

\* getFromS3 of the request's tile from the bucket as it is now, with a store
\* that works.
getAfterPut(r) == getFromS3(req[r].tile, intactAnswer(s3, key(req[r].tile)))

\* The request's writeToS3 has returned nil for a full batch.
PutReportedSuccess(r) ==
    /\ hist[r].writeFault # ""
    /\ hist[r].writeErr = "nil"
    /\ Len(hist[r].batch) = req[r].tile.size

\* C15, as stated: after a put of a full batch that reports success, a get of
\* the same tile returns the batch that was put, the same entries in the same
\* order, and neither NotFound nor an error.
C15_RoundTrip ==
    \A r \in Reqs :
        PutReportedSuccess(r) =>
            /\ getAfterPut(r).err = "nil"
            /\ getAfterPut(r).entries = hist[r].batch

\* A put that reported success although the serialization failed: the get of
\* the same tile that follows finds no object.
C15_Witness ==
    \E r \in Reqs :
        /\ PutReportedSuccess(r)
        /\ hist[r].writeFault = "encode"
        /\ isNoSuchKey(getAfterPut(r).err)
        /\ getAfterPut(r).entries # hist[r].batch

\* C16: X-Partial-Tile is set on a response exactly when the request's batch
\* was fetched from the backend with fewer than TileSize entries; it is never
\* set on a response served from the cache nor on one for a full tile
\* fetched from the backend.
C16_PartialHeader ==
    \A r \in Reqs :
        Done(r) =>
            /\ req[r].partial <=>
                   /\ hist[r].nFetch = 1
                   /\ hist[r].fetchErr = "nil"
                   /\ hist[r].fetchLen < TileSize
            /\ req[r].source = "S3" => ~req[r].partial
            /\ (req[r].source = "CT log" /\ hist[r].fetchLen = TileSize) => ~req[r].partial
            /\ req[r].partial => req[r].source = "CT log"

\* A response for a partial tile with the header, next to a response for a
\* full tile fetched from the backend without it.
C16_Witness ==
    \E r1, r2 \in Reqs :
        /\ Done(r1) /\ req[r1].status = StatusOK
        /\ req[r1].partial /\ hist[r1].fetchLen < TileSize
        /\ Done(r2) /\ req[r2].status = StatusOK
        /\ req[r2].source = "CT log" /\ hist[r2].fetchLen = TileSize
        /\ ~req[r2].partial

\* The request was accepted by parseQueryParams and the slot still holds its
\* range.
Accepted(r) ==
    /\ hist[r].pathOk
    /\ hist[r].hasParams
    /\ ~Unusable(hist[r].ps)
    /\ ~Unusable(hist[r].pe)
    /\ hist[r].pe.val >= hist[r].ps.val

\* C17, as stated: for every accepted request, the largest int64 as end
\* included, the internal half-open end is the requested end + 1 and lies
\* above start, the requested length end - start is at least 1, and a 200
\* response holds between 1 and that many entries.
C17_RequestedLength ==
    \A r \in Reqs :
        Accepted(r) =>
            LET requestedLen == Wrap64(req[r].end - req[r].start)
            IN  /\ req[r].start = ReqStart(r)
                /\ req[r].end = ReqEnd(r) + 1
                /\ req[r].end > req[r].start
                /\ requestedLen >= 1
                /\ ~req[r].panicked
                /\ (Done(r) /\ req[r].status = StatusOK) =>
                       /\ Len(req[r].body.entries) >= 1
                       /\ Len(req[r].body.entries) <= requestedLen

\* The request start=0, end=MaxInt64 on a tile that holds entries: the
\* internal end has wrapped to the smallest int64, the requested length is
\* negative and the handler panicked in the slice expression.
C17_Witness ==
    \E r \in Reqs :
        /\ Accepted(r)
        /\ ReqStart(r) = 0
        /\ ReqEnd(r) = MaxInt64
        /\ req[r].end = MinInt64
        /\ Wrap64(req[r].end - req[r].start) < 0
        /\ Len(hist[r].batch) >= 1
        /\ req[r].panicked
        /\ req[r].status = 0

\* C18: a request whose batch came from a cache hit or from a full backend
\* fetch has start - tile.start below the length of its batch and is never
\* answered "requested range is past the end of the log"; that answer is
\* given for partial tiles only.
C18_PastEndOnlyPartial ==
    \A r \in Reqs :
        /\ (HadBatch(r) /\ (req[r].source = "S3" \/ hist[r].fetchLen = TileSize)) =>
               /\ Len(hist[r].batch) = TileSize
               /\ req[r].start - req[r].tile.start >= 0
               /\ req[r].start - req[r].tile.start < Len(hist[r].batch)
               /\ req[r].status # StatusBadRequest
               /\ req[r].body # pastEndBody
        /\ (Done(r) /\ req[r].body = pastEndBody) =>
               /\ req[r].partial
               /\ req[r].source = "CT log"
               /\ hist[r].fetchLen < TileSize

\* A cache hit for the last position of a tile, answered 200, next to a
\* partial tile whose request was answered "past the end of the log".
C18_Witness ==
    \E r1, r2 \in Reqs :
        /\ HadBatch(r1) /\ req[r1].source = "S3"
        /\ req[r1].start - req[r1].tile.start = TileSize - 1
        /\ req[r1].status = StatusOK
        /\ HadBatch(r2) /\ req[r2].partial
        /\ req[r2].body = pastEndBody
        /\ req[r2].status = StatusBadRequest

\* C19: a request does at most one cache get, at most one backend fetch and
\* at most one cache put, in that order and with no retry: the get comes
\* before any other call, the fetch comes only after the get returned
\* NoSuchKey, and the put only after the fetch returned exactly TileSize
\* entries.
C19_StepOrder ==
    [][\A r \in Reqs :
          /\ hist'[r].nGet <= 1 /\ hist'[r].nFetch <= 1 /\ hist'[r].nPut <= 1
          /\ hist'[r].nGet > hist[r].nGet =>
                 /\ hist[r].nGet = 0 /\ hist[r].nFetch = 0 /\ hist[r].nPut = 0
          /\ hist'[r].nFetch > hist[r].nFetch =>
                 /\ hist[r].nFetch = 0 /\ hist[r].nPut = 0
                 /\ hist[r].nGet = 1
                 /\ hist[r].getKind = "NoSuchKey"
          /\ hist'[r].nPut > hist[r].nPut =>
                 /\ hist[r].nPut = 0
                 /\ hist[r].nGet = 1 /\ hist[r].getKind = "NoSuchKey"
                 /\ hist[r].nFetch = 1
                 /\ hist[r].fetchErr = "nil"
                 /\ hist[r].fetchLen = TileSize
                 /\ hist[r].backendLen = TileSize
          /\ (req[r].pc # "idle" /\ req'[r].pc # "idle") =>
                 /\ hist'[r].nGet >= hist[r].nGet
                 /\ hist'[r].nFetch >= hist[r].nFetch
                 /\ hist'[r].nPut >= hist[r].nPut]_vars

\* A request that did all three calls, once each, and was answered 200.
C19_Witness ==
    \E r \in Reqs :
        /\ Done(r)
        /\ hist[r].nGet = 1 /\ hist[r].nFetch = 1 /\ hist[r].nPut = 1
        /\ hist[r].getKind = "NoSuchKey"
        /\ hist[r].fetchLen = TileSize
        /\ hist[r].stored
        /\ req[r].status = StatusOK

\* C20, as stated (its finite part): a request that has ended has exactly
\* one outcome, either 200 with the entries or one failure status with no
\* entries; no request ends without a status.
C20_OneOutcome ==
    \A r \in Reqs :
        /\ Done(r) =>
               /\ req[r].status \in {StatusOK, StatusBadRequest, StatusNotFound,
                                     StatusInternalServerError}
               /\ ~req[r].panicked
               /\ req[r].status = StatusOK <=> req[r].body.kind = "json"
               /\ req[r].status # StatusOK <=> req[r].body.kind = "text"
        /\ ~Done(r) =>
               /\ req[r].status = 0
               /\ req[r].body = noBody

\* A request all of whose calls returned and that ended with neither a
\* status nor a body.
C20_Witness ==
    \E r \in Reqs :
        /\ Done(r)
        /\ hist[r].nGet = 1
        /\ hist[r].getKind \in {"ok", "NoSuchKey"}
        /\ req[r].status = 0
        /\ req[r].body = noBody
        /\ req[r].respLen = -1

====
